---- MODULE Spec2Model ----
(***************************************************************************)
(* Credit Risk Scoring API (main.py) and its synthetic dataset generator   *)
(* (generate_data.py).                                                     *)
(*                                                                         *)
(* Money amounts are whole dollars.  The code divides floats; every        *)
(* comparison of a ratio with a threshold is modelled by the equivalent    *)
(* cross-multiplied integer comparison (applicant_income > 0), which is    *)
(* what the float comparison yields on the amounts drawn here.             *)
(* confidence is kept in hundredths, the unrounded value in thousandths.   *)
(* The two rounded ratio fields of the response are not modelled.          *)
(***************************************************************************)
EXTENDS Integers, Sequences, FiniteSets, TLC

VARIABLES
    application,   \* the applicant record handed to the scoring functions
    assessed,      \* <<>> or <<RiskAssessment>>: result of calculate_risk_score
    rows,          \* <<>> or <<row>>: result of generate_application
    previous,      \* <<>> or <<[application, assessment]>>: the call before
    clock,         \* wall clock of the server, in ticks
    pc,            \* per request thread: "idle", "scoring" or "stamping"
    req,           \* per request thread: <<>> or <<validated LoanApplication>>
    id_clock,      \* per request thread: the clock read for application_id
    responses,     \* HTTP responses sent so far, in order
    engine_calls   \* bodies calculate_risk_score has been invoked with

pureVars == <<application, assessed, rows, previous>>
serviceVars == <<clock, pc, req, id_clock, responses, engine_calls>>
vars == <<application, assessed, rows, previous,
          clock, pc, req, id_clock, responses, engine_calls>>

(***************************************************************************)
(* Bounds and input domains                                                *)
(***************************************************************************)
MaxCreditYears == 6
NumThreads == 2
TicksPerSecond == 2
MaxClock == 3
MaxCalls == 2

IncomeVals == {20000, 25000, 50000, 60000, 80000, 100000}
DebtVals == {0, 10000, 20000, 30000, 35000}
LoanVals == {50000, 100000, 150000, 200000, 250000}
TermVals == {60, 180, 360, 480}
CreditVals == {12 * k : k \in 0..MaxCreditYears}
DependentVals == {0, 3, 4}
\* The three str fields are not restricted by LoanApplication: besides the
\* documented values each domain holds one undocumented string.
EmploymentVals == {"employed", "self_employed", "unemployed", "student"}
AreaVals == {"urban", "suburban", "rural", "semiurban"}
EducationVals == {"graduate", "not_graduate", "phd"}

Applications ==
    [applicant_income : IncomeVals,
     loan_amount : LoanVals,
     loan_term_months : TermVals,
     credit_history_months : CreditVals,
     employment_status : EmploymentVals,
     property_area : AreaVals,
     dependents : DependentVals,
     education : EducationVals,
     existing_debt : DebtVals]

(***************************************************************************)
(* main.py: calculate_risk_score                                           *)
(***************************************************************************)
\* debt_to_income = (existing_debt / applicant_income) * 100, compared with t
debt_to_income_lt(a, t) == a.existing_debt * 100 < t * a.applicant_income
debt_to_income_gt(a, t) == a.existing_debt * 100 > t * a.applicant_income

\* loan_to_income = loan_amount / applicant_income, compared with t
loan_to_income_lt(a, t) == a.loan_amount < t * a.applicant_income
loan_to_income_gt(a, t) == a.loan_amount > t * a.applicant_income

\* payment_to_income = (loan_amount / loan_term_months * 12 / applicant_income) * 100
payment_to_income_gt(a, t) ==
    a.loan_amount * 12 * 100 > t * a.loan_term_months * a.applicant_income

income_adjustment(a) ==
    IF a.applicant_income > 80000 THEN 15
    ELSE IF a.applicant_income > 50000 THEN 10
    ELSE IF a.applicant_income < 25000 THEN -15
    ELSE 0

\* Mutant of debt_adjustment: the > 40 test placed before the > 50 test, so
\* the -15 band is shadowed.
debt_adjustment_shadowed(a) ==
    IF debt_to_income_lt(a, 20) THEN 15
    ELSE IF debt_to_income_lt(a, 35) THEN 5
    ELSE IF debt_to_income_gt(a, 40) THEN -10
    ELSE IF debt_to_income_gt(a, 50) THEN -15
    ELSE 0

debt_adjustment(a) ==
    IF debt_to_income_lt(a, 20) THEN 15
    ELSE IF debt_to_income_lt(a, 35) THEN 5
    ELSE IF debt_to_income_gt(a, 50) THEN -15
    ELSE IF debt_to_income_gt(a, 40) THEN -10
    ELSE 0

\* Mutant of loan_adjustment: the +15 and +8 of the first two bands swapped.
loan_adjustment_swapped(a) ==
    IF loan_to_income_lt(a, 2) THEN 8
    ELSE IF loan_to_income_lt(a, 3) THEN 15
    ELSE IF loan_to_income_gt(a, 5) THEN -15
    ELSE IF loan_to_income_gt(a, 4) THEN -10
    ELSE 0

loan_adjustment(a) ==
    IF loan_to_income_lt(a, 2) THEN 15
    ELSE IF loan_to_income_lt(a, 3) THEN 8
    ELSE IF loan_to_income_gt(a, 5) THEN -15
    ELSE IF loan_to_income_gt(a, 4) THEN -10
    ELSE 0

credit_adjustment(a) ==
    IF a.credit_history_months > 60 THEN 10
    ELSE IF a.credit_history_months > 36 THEN 5
    ELSE IF a.credit_history_months < 12 THEN -10
    ELSE 0

employment_adjustment(a) ==
    IF a.employment_status = "employed" THEN 10
    ELSE IF a.employment_status = "unemployed" THEN -20
    ELSE 0

education_adjustment(a) ==
    IF a.education = "graduate" THEN 5 ELSE 0

area_adjustment(a) ==
    IF a.property_area = "urban" THEN 5
    ELSE IF a.property_area = "rural" THEN -3
    ELSE 0

dependents_adjustment(a) ==
    IF a.dependents = 0 THEN 5
    ELSE IF a.dependents > 3 THEN -5
    ELSE 0

term_adjustment(a) ==
    IF a.loan_term_months <= 180 THEN 5
    ELSE IF a.loan_term_months > 360 THEN -3
    ELSE 0

\* score = 50, then the nine if/elif chains in source order
raw_score(a) ==
    50 + income_adjustment(a) + debt_adjustment(a) + loan_adjustment(a)
       + credit_adjustment(a) + employment_adjustment(a)
       + education_adjustment(a) + area_adjustment(a)
       + dependents_adjustment(a) + term_adjustment(a)

Min(x, y) == IF x < y THEN x ELSE y
Max(x, y) == IF x > y THEN x ELSE y

\* Mutant of cap_score: the upper cap forgotten.
cap_score_no_min(s) == Max(0, s)

\* score = max(0, min(100, score))
cap_score(s) == Max(0, Min(100, s))

\* Mutant of risk_category: > 70 for >= 70.
risk_category_strict(score) ==
    IF score > 70 THEN "LOW"
    ELSE IF score >= 50 THEN "MEDIUM"
    ELSE "HIGH"

risk_category(score) ==
    IF score >= 70 THEN "LOW"
    ELSE IF score >= 50 THEN "MEDIUM"
    ELSE "HIGH"

approval(score) ==
    IF score >= 70 THEN "APPROVE"
    ELSE IF score >= 50 THEN "REVIEW"
    ELSE "DECLINE"

When(cond, text) == IF cond THEN <<text>> ELSE <<>>

positive_factors(a) ==
    When(a.applicant_income > 60000, "Strong income level")
    \o When(debt_to_income_lt(a, 30), "Low debt-to-income ratio")
    \o When(a.credit_history_months > 48, "Established credit history")
    \o When(a.employment_status = "employed", "Stable employment")
    \o When(loan_to_income_lt(a, 3), "Reasonable loan amount")

\* Mutant of negative_factors: the credit-history rule uses the scoring
\* band's threshold (< 12) instead of the explanation's (< 24).
negative_factors_scoring_band(a) ==
    When(debt_to_income_gt(a, 40), "High existing debt burden")
    \o When(loan_to_income_gt(a, 4), "Large loan relative to income")
    \o When(a.credit_history_months < 12, "Limited credit history")
    \o When(a.employment_status = "unemployed", "No stable income source")
    \o When(payment_to_income_gt(a, 40), "High monthly payment burden")

negative_factors(a) ==
    When(debt_to_income_gt(a, 40), "High existing debt burden")
    \o When(loan_to_income_gt(a, 4), "Large loan relative to income")
    \o When(a.credit_history_months < 24, "Limited credit history")
    \o When(a.employment_status = "unemployed", "No stable income source")
    \o When(payment_to_income_gt(a, 40), "High monthly payment burden")

\* positive_factors if positive_factors else ["None identified"]
or_placeholder(factors) ==
    IF factors # <<>> THEN factors ELSE <<"None identified">>

Abs(x) == IF x < 0 THEN -x ELSE x

\* Mutant of confidence_raw: abs() forgotten.
confidence_raw_signed(score) == 750 + (score - 50) * 2

\* 0.75 + (abs(score - 50) / 100) * 0.2, in thousandths
confidence_raw(score) == 750 + Abs(score - 50) * 2

\* round(x, 2) of a value given in thousandths, result in hundredths
\* (round half to even)
round2(x) ==
    LET q == x \div 10
        r == x % 10
    IN  IF r < 5 THEN q
        ELSE IF r > 5 THEN q + 1
        ELSE IF q % 2 = 0 THEN q ELSE q + 1

\* datetime.now().strftime('%Y%m%d%H%M%S'): the clock cut to whole seconds
strftime(t) == t \div TicksPerSecond

\* datetime.now().isoformat(): the clock at full resolution
isoformat(t) == t

\* Mutant of calculate_risk_score: positive_factors is a module-level list
\* that is never cleared, so a call's list starts with what the call before
\* left in it.
calculate_risk_score_shared_list(a, now_id, now_at) ==
    LET score == cap_score(raw_score(a))
        left_over ==
            IF responses # <<>> /\ responses[Len(responses)].status = 200
            THEN responses[Len(responses)].assessment.key_factors.positive
            ELSE <<>>
    IN  [application_id |-> strftime(now_id),
         risk_score |-> score,
         risk_category |-> risk_category(score),
         approval_recommendation |-> approval(score),
         confidence |-> round2(confidence_raw(score)),
         key_factors |->
             [positive |-> or_placeholder(left_over \o positive_factors(a)),
              negative |-> or_placeholder(negative_factors(a))],
         processed_at |-> isoformat(now_at)]

\* now_id, now_at: the two datetime.now() readings of one call
calculate_risk_score(a, now_id, now_at) ==
    LET score == cap_score(raw_score(a))
    IN  [application_id |-> strftime(now_id),
         risk_score |-> score,
         risk_category |-> risk_category(score),
         approval_recommendation |-> approval(score),
         confidence |-> round2(confidence_raw(score)),
         key_factors |->
             [positive |-> or_placeholder(positive_factors(a)),
              negative |-> or_placeholder(negative_factors(a))],
         processed_at |-> isoformat(now_at)]

(***************************************************************************)
(* main.py: LoanApplication (the Field constraints pydantic enforces)      *)
(***************************************************************************)
LoanApplication(body) ==
    /\ body.applicant_income > 0
    /\ body.loan_amount > 0
    /\ body.loan_term_months >= 12 /\ body.loan_term_months <= 480
    /\ body.credit_history_months >= 0
    /\ body.dependents >= 0 /\ body.dependents <= 10
    /\ body.existing_debt >= 0

\* Config.json_schema_extra["example"]
ExampleApplication ==
    [applicant_income |-> 50000,
     loan_amount |-> 150000,
     loan_term_months |-> 360,
     credit_history_months |-> 84,
     employment_status |-> "employed",
     property_area |-> "urban",
     dependents |-> 2,
     education |-> "graduate",
     existing_debt |-> 15000]

(***************************************************************************)
(* generate_data.py: generate_application                                  *)
(***************************************************************************)
\* The random draws of lines 10-18: s holds the locals they assign.
sampled(s) ==
    /\ s.income \in 25000..150000
    /\ s.loan_amount \in 50000..500000
    /\ s.loan_term \in {60, 120, 180, 240, 360}
    /\ s.credit_history \in 0..120
    /\ s.employment \in {"employed", "self_employed", "unemployed"}
    /\ s.property_area \in {"urban", "suburban", "rural"}
    /\ s.dependents \in {0, 1, 2, 3, 4}
    /\ s.education \in {"graduate", "not_graduate"}
    /\ s.existing_debt >= 0 /\ s.existing_debt * 2 <= s.income

gen_income_adjustment(s) ==
    IF s.income > 80000 THEN 15
    ELSE IF s.income > 50000 THEN 10
    ELSE IF s.income < 25000 THEN -15
    ELSE 0

gen_debt_adjustment(s) ==
    IF s.existing_debt * 100 < 20 * s.income THEN 15
    ELSE IF s.existing_debt * 100 < 35 * s.income THEN 5
    ELSE IF s.existing_debt * 100 > 50 * s.income THEN -15
    ELSE IF s.existing_debt * 100 > 40 * s.income THEN -10
    ELSE 0

\* Mutant of gen_loan_adjustment: the copy drifted from the API's bands
\* (+10 for +8).
gen_loan_adjustment_drifted(s) ==
    IF s.loan_amount < 2 * s.income THEN 15
    ELSE IF s.loan_amount < 3 * s.income THEN 10
    ELSE IF s.loan_amount > 5 * s.income THEN -15
    ELSE IF s.loan_amount > 4 * s.income THEN -10
    ELSE 0

gen_loan_adjustment(s) ==
    IF s.loan_amount < 2 * s.income THEN 15
    ELSE IF s.loan_amount < 3 * s.income THEN 8
    ELSE IF s.loan_amount > 5 * s.income THEN -15
    ELSE IF s.loan_amount > 4 * s.income THEN -10
    ELSE 0

gen_credit_adjustment(s) ==
    IF s.credit_history > 60 THEN 10
    ELSE IF s.credit_history > 36 THEN 5
    ELSE IF s.credit_history < 12 THEN -10
    ELSE 0

gen_employment_adjustment(s) ==
    IF s.employment = "employed" THEN 10
    ELSE IF s.employment = "unemployed" THEN -20
    ELSE 0

gen_education_adjustment(s) ==
    IF s.education = "graduate" THEN 5 ELSE 0

gen_area_adjustment(s) ==
    IF s.property_area = "urban" THEN 5
    ELSE IF s.property_area = "rural" THEN -3
    ELSE 0

gen_dependents_adjustment(s) ==
    IF s.dependents = 0 THEN 5
    ELSE IF s.dependents > 3 THEN -5
    ELSE 0

gen_term_adjustment(s) ==
    IF s.loan_term <= 180 THEN 5
    ELSE IF s.loan_term > 360 THEN -3
    ELSE 0

gen_score(s) ==
    LET score == 50 + gen_income_adjustment(s) + gen_debt_adjustment(s)
                    + gen_loan_adjustment(s) + gen_credit_adjustment(s)
                    + gen_employment_adjustment(s) + gen_education_adjustment(s)
                    + gen_area_adjustment(s) + gen_dependents_adjustment(s)
                    + gen_term_adjustment(s)
    IN  Max(0, Min(100, score))

gen_category(score) ==
    IF score >= 70 THEN "LOW"
    ELSE IF score >= 50 THEN "MEDIUM"
    ELSE "HIGH"

gen_decision(score) ==
    IF score >= 70 THEN "APPROVED"
    ELSE IF score >= 50 THEN "REVIEW"
    ELSE "DECLINED"

\* The row generate_application returns for the drawn locals s (the random
\* application_date and the two rounded ratios are left out).
generate_application(s) ==
    LET score == gen_score(s)
    IN  [applicant_income |-> s.income,
         loan_amount |-> s.loan_amount,
         loan_term_months |-> s.loan_term,
         credit_history_months |-> s.credit_history,
         employment_status |-> s.employment,
         property_area |-> s.property_area,
         dependents |-> s.dependents,
         education |-> s.education,
         existing_debt |-> s.existing_debt,
         risk_score |-> score,
         risk_category |-> gen_category(score),
         decision |-> gen_decision(score)]

\* The generator's locals holding the attributes of applicant record a.
locals_of(a) ==
    [income |-> a.applicant_income,
     loan_amount |-> a.loan_amount,
     loan_term |-> a.loan_term_months,
     credit_history |-> a.credit_history_months,
     employment |-> a.employment_status,
     property_area |-> a.property_area,
     dependents |-> a.dependents,
     education |-> a.education,
     existing_debt |-> a.existing_debt]

(***************************************************************************)
(* Initial values of the two halves of the state                           *)
(***************************************************************************)
Threads == 1..NumThreads

PureIdle ==
    /\ application = ExampleApplication
    /\ assessed = <<>>
    /\ rows = <<>>
    /\ previous = <<>>

ServiceIdle ==
    /\ clock = 0
    /\ pc = [c \in Threads |-> "idle"]
    /\ req = [c \in Threads |-> <<>>]
    /\ id_clock = [c \in Threads |-> 0]
    /\ responses = <<>>
    /\ engine_calls = {}

(***************************************************************************)
(* SpecScore: one applicant record, scored by the API engine and by the    *)
(* dataset generator                                                       *)
(***************************************************************************)
InitScore ==
    /\ application \in Applications
    /\ assessed = <<>>
    /\ rows = <<>>
    /\ previous = <<>>
    /\ ServiceIdle

\* calculate_risk_score(application)
Assess ==
    /\ assessed = <<>>
    /\ assessed' = <<calculate_risk_score(application, clock, clock)>>
    /\ UNCHANGED <<application, rows, previous>>
    /\ UNCHANGED serviceVars

\* generate_application() having drawn the attributes of application
Generate ==
    /\ rows = <<>>
    /\ sampled(locals_of(application))
    /\ rows' = <<generate_application(locals_of(application))>>
    /\ UNCHANGED <<application, assessed, previous>>
    /\ UNCHANGED serviceVars

NextScore == Assess \/ Generate

SpecScore == InitScore /\ [][NextScore]_vars

(***************************************************************************)
(* SpecPair: an applicant scored, then scored again with one financial     *)
(* field changed                                                           *)
(***************************************************************************)
PairApplications ==
    [applicant_income : IncomeVals,
     loan_amount : LoanVals,
     loan_term_months : {180, 480},
     credit_history_months : {0, 12 * MaxCreditYears},
     employment_status : {"employed", "self_employed", "unemployed"},
     property_area : {"urban", "rural"},
     dependents : {0, 4},
     education : {"graduate", "not_graduate"},
     existing_debt : DebtVals]

InitPair ==
    /\ application \in PairApplications
    /\ assessed = <<>>
    /\ rows = <<>>
    /\ previous = <<>>
    /\ ServiceIdle

Resubmit(changed) ==
    /\ assessed # <<>>
    /\ changed # application
    /\ previous' = <<[application |-> application, assessment |-> assessed[1]]>>
    /\ application' = changed
    /\ assessed' = <<>>
    /\ UNCHANGED rows
    /\ UNCHANGED serviceVars

ChangeIncome ==
    \E v \in IncomeVals :
        Resubmit([application EXCEPT !.applicant_income = v])

ChangeDebt ==
    \E v \in DebtVals :
        Resubmit([application EXCEPT !.existing_debt = v])

ChangeLoan ==
    \E v \in LoanVals :
        Resubmit([application EXCEPT !.loan_amount = v])

NextPair == Assess \/ ChangeIncome \/ ChangeDebt \/ ChangeLoan

SpecPair == InitPair /\ [][NextPair]_vars

(***************************************************************************)
(* Spec: the HTTP service.  Sync endpoints run on a thread pool, so the    *)
(* requests of different threads interleave; the only shared thing a call  *)
(* reads is the wall clock, once for application_id and once for           *)
(* processed_at.                                                           *)
(***************************************************************************)
\* test_score_application_high_risk
HighRiskApplication ==
    [applicant_income |-> 20000,
     loan_amount |-> 200000,
     loan_term_months |-> 360,
     credit_history_months |-> 6,
     employment_status |-> "unemployed",
     property_area |-> "rural",
     dependents |-> 4,
     education |-> "not_graduate",
     existing_debt |-> 15000]

\* JSON bodies clients post: two conforming ones and one violation of each
\* kind of constraint
RequestBodies ==
    {ExampleApplication,
     HighRiskApplication,
     [ExampleApplication EXCEPT !.applicant_income = -1000],
     [ExampleApplication EXCEPT !.applicant_income = 0],
     [ExampleApplication EXCEPT !.loan_term_months = 6],
     [ExampleApplication EXCEPT !.dependents = 11],
     [ExampleApplication EXCEPT !.employment_status = "student"],
     [ExampleApplication EXCEPT !.property_area = "semiurban"],
     [ExampleApplication EXCEPT !.education = "phd"]}

Init ==
    /\ PureIdle
    /\ ServiceIdle

InFlight == Cardinality({c \in Threads : pc[c] # "idle"})

\* POST /api/v1/score: FastAPI builds the LoanApplication; a body that fails
\* its Field constraints is answered 422 and score_application does not run.
\* Otherwise score_application calls calculate_risk_score (the try/except
\* around it answers 500 on an exception; none is raised for a validated
\* body, applicant_income and loan_term_months being positive).
Reject(c, body) ==
    /\ pc[c] = "idle"
    /\ Len(responses) + InFlight < MaxCalls
    /\ ~LoanApplication(body)
    /\ responses' = Append(responses, [status |-> 422, application |-> body])
    /\ UNCHANGED <<clock, pc, req, id_clock, engine_calls>>
    /\ UNCHANGED pureVars

score_application(c, body) ==
    /\ pc[c] = "idle"
    /\ Len(responses) + InFlight < MaxCalls
    /\ LoanApplication(body)
    /\ pc' = [pc EXCEPT ![c] = "scoring"]
    /\ req' = [req EXCEPT ![c] = <<body>>]
    /\ engine_calls' = engine_calls \cup {body}
    /\ UNCHANGED <<clock, id_clock, responses>>
    /\ UNCHANGED pureVars

\* app_id = f"APP-{datetime.now().strftime(...)}"
GenerateId(c) ==
    /\ pc[c] = "scoring"
    /\ id_clock' = [id_clock EXCEPT ![c] = clock]
    /\ pc' = [pc EXCEPT ![c] = "stamping"]
    /\ UNCHANGED <<clock, req, responses, engine_calls>>
    /\ UNCHANGED pureVars

\* return RiskAssessment(..., processed_at=datetime.now().isoformat())
Return(c) ==
    /\ pc[c] = "stamping"
    /\ responses' = Append(responses,
           [status |-> 200,
            application |-> req[c][1],
            assessment |-> calculate_risk_score(req[c][1], id_clock[c], clock)])
    /\ pc' = [pc EXCEPT ![c] = "idle"]
    /\ req' = [req EXCEPT ![c] = <<>>]
    /\ id_clock' = [id_clock EXCEPT ![c] = 0]
    /\ UNCHANGED <<clock, engine_calls>>
    /\ UNCHANGED pureVars

\* the wall clock advances
Tick ==
    /\ clock < MaxClock
    /\ clock' = clock + 1
    /\ UNCHANGED <<pc, req, id_clock, responses, engine_calls>>
    /\ UNCHANGED pureVars

Next ==
    \/ \E c \in Threads, body \in RequestBodies : Reject(c, body)
    \/ \E c \in Threads, body \in RequestBodies : score_application(c, body)
    \/ \E c \in Threads : GenerateId(c)
    \/ \E c \in Threads : Return(c)
    \/ Tick

Spec == Init /\ [][Next]_vars

(***************************************************************************)
(* Properties                                                              *)
(***************************************************************************)
Placeholder == <<"None identified">>

Range(seq) == {seq[i] : i \in DOMAIN seq}

\* C1: for every applicant record satisfying the input constraints, the
\* risk_score calculate_risk_score returns is an integer between 0 and 100.
C1_ScoreInRange ==
    \A i \in DOMAIN assessed :
        LoanApplication(application) =>
            /\ assessed[i].risk_score \in Int
            /\ 0 <= assessed[i].risk_score
            /\ assessed[i].risk_score <= 100

\* C1 witness: an assessment whose uncapped sum exceeded 100 and was capped.
C1_Witness ==
    /\ assessed # <<>>
    /\ LoanApplication(application)
    /\ raw_score(application) > 100
    /\ assessed[1].risk_score = 100

\* C2: category and decision are fixed by the capped score in both
\* directions: >= 70 iff LOW iff APPROVE, 50..69 iff MEDIUM iff REVIEW,
\* < 50 iff HIGH iff DECLINE; no other (category, decision) pair occurs.
C2_CategoryDecision ==
    \A i \in DOMAIN assessed :
        LET r == assessed[i]
        IN  /\ (r.risk_score >= 70) <=> (r.risk_category = "LOW")
            /\ (r.risk_category = "LOW") <=> (r.approval_recommendation = "APPROVE")
            /\ (r.risk_score >= 50 /\ r.risk_score < 70) <=> (r.risk_category = "MEDIUM")
            /\ (r.risk_category = "MEDIUM") <=> (r.approval_recommendation = "REVIEW")
            /\ (r.risk_score < 50) <=> (r.risk_category = "HIGH")
            /\ (r.risk_category = "HIGH") <=> (r.approval_recommendation = "DECLINE")
            /\ <<r.risk_category, r.approval_recommendation>> \in
                   {<<"LOW", "APPROVE">>, <<"MEDIUM", "REVIEW">>, <<"HIGH", "DECLINE">>}

\* C2 witness: an assessment exactly on the LOW threshold.
C2_Witness ==
    /\ assessed # <<>>
    /\ assessed[1].risk_score = 70
    /\ assessed[1].risk_category = "LOW"
    /\ assessed[1].approval_recommendation = "APPROVE"

\* The bands of claim C3, stated over exact ratios: d / i * 100 < t is
\* d * 100 < t * i for i > 0.
C3_income(a) ==
    CASE a.applicant_income > 80000 -> 15
      [] a.applicant_income <= 80000 /\ a.applicant_income > 50000 -> 10
      [] a.applicant_income < 25000 -> -15
      [] OTHER -> 0

C3_debt(a) ==
    LET d == a.existing_debt * 100
        i == a.applicant_income
    IN  CASE d < 20 * i -> 15
          [] d >= 20 * i /\ d < 35 * i -> 5
          [] d > 50 * i -> -15
          [] d > 40 * i /\ d <= 50 * i -> -10
          [] OTHER -> 0

C3_loan(a) ==
    LET l == a.loan_amount
        i == a.applicant_income
    IN  CASE l < 2 * i -> 15
          [] l >= 2 * i /\ l < 3 * i -> 8
          [] l > 5 * i -> -15
          [] l > 4 * i /\ l <= 5 * i -> -10
          [] OTHER -> 0

C3_credit(a) ==
    CASE a.credit_history_months > 60 -> 10
      [] a.credit_history_months > 36 /\ a.credit_history_months <= 60 -> 5
      [] a.credit_history_months < 12 -> -10
      [] OTHER -> 0

C3_employment(a) ==
    CASE a.employment_status = "employed" -> 10
      [] a.employment_status = "unemployed" -> -20
      [] OTHER -> 0

C3_education(a) ==
    CASE a.education = "graduate" -> 5
      [] OTHER -> 0

C3_area(a) ==
    CASE a.property_area = "urban" -> 5
      [] a.property_area = "rural" -> -3
      [] OTHER -> 0

C3_dependents(a) ==
    CASE a.dependents = 0 -> 5
      [] a.dependents > 3 -> -5
      [] OTHER -> 0

C3_term(a) ==
    CASE a.loan_term_months <= 180 -> 5
      [] a.loan_term_months > 360 -> -3
      [] OTHER -> 0

C3_sum(a) ==
    50 + C3_income(a) + C3_debt(a) + C3_loan(a) + C3_credit(a)
       + C3_employment(a) + C3_education(a) + C3_area(a)
       + C3_dependents(a) + C3_term(a)

C6_positive_rule_fired(a) ==
    \/ a.applicant_income > 60000
    \/ a.existing_debt * 100 < 30 * a.applicant_income
    \/ a.credit_history_months > 48
    \/ a.employment_status = "employed"
    \/ a.loan_amount < 3 * a.applicant_income

C6_negative_rule_fired(a) ==
    \/ a.existing_debt * 100 > 40 * a.applicant_income
    \/ a.loan_amount > 4 * a.applicant_income
    \/ a.credit_history_months < 24
    \/ a.employment_status = "unemployed"
    \/ a.loan_amount * 1200 > 40 * a.loan_term_months * a.applicant_income

C6_list_ok(list, fired) ==
    /\ Len(list) >= 1
    /\ (list = Placeholder) <=> ~fired
    /\ ("None identified" \in Range(list)) => Len(list) = 1

\* C6: each key_factors list is non-empty, is the single placeholder exactly
\* when none of its five rules fired, and never holds the placeholder beside
\* a real entry.
C6_Placeholder ==
    \A i \in DOMAIN assessed :
        /\ C6_list_ok(assessed[i].key_factors.positive,
                      C6_positive_rule_fired(application))
        /\ C6_list_ok(assessed[i].key_factors.negative,
                      C6_negative_rule_fired(application))

\* C6 witness: no positive rule fired (placeholder) while several negative
\* rules did.
C6_Witness ==
    /\ assessed # <<>>
    /\ assessed[1].key_factors.positive = Placeholder
    /\ Len(assessed[1].key_factors.negative) >= 2
    /\ ~("None identified" \in Range(assessed[1].key_factors.negative))

C7_decisions == {<<"APPROVED", "APPROVE">>, <<"REVIEW", "REVIEW">>, <<"DECLINED", "DECLINE">>}

C7_agree(row, assessment) ==
    /\ row.risk_score = assessment.risk_score
    /\ row.risk_category = assessment.risk_category
    /\ <<row.decision, assessment.approval_recommendation>> \in C7_decisions

\* C7: on every tuple of applicant attributes the generator's scoring yields
\* the risk_score and risk_category of calculate_risk_score, and the
\* decisions correspond (APPROVED/APPROVE, REVIEW/REVIEW, DECLINED/DECLINE).
C7_GeneratorAgrees ==
    /\ C7_agree(generate_application(locals_of(application)),
                calculate_risk_score(application, clock, clock))
    /\ \A i \in DOMAIN rows, j \in DOMAIN assessed :
           C7_agree(rows[i], assessed[j])

\* C7 witness: the generator drew an applicant it approves, and the API
\* scored the same applicant.
C7_Witness ==
    /\ rows # <<>>
    /\ assessed # <<>>
    /\ rows[1].decision = "APPROVED"
    /\ rows[1].applicant_income = application.applicant_income
    /\ assessed[1].approval_recommendation = "APPROVE"

C9_distance(assessment) == Abs(assessment.risk_score - 50)

\* C9: confidence (in hundredths) is 0.75 + (|risk_score - 50| / 100) * 0.2
\* rounded to 2 decimals, lies in [0.75, 0.95], and of two assessments the
\* one at least as far from 50 has confidence at least as large.
C9_Confidence ==
    /\ \A i \in DOMAIN assessed :
           LET c == assessed[i].confidence
               exact == 750 + 2 * C9_distance(assessed[i])
           IN  /\ 10 * c - exact <= 5
               /\ exact - 10 * c <= 5
               /\ 75 <= c /\ c <= 95
    /\ \A i \in DOMAIN assessed, j \in DOMAIN previous :
           LET now == assessed[i]
               before == previous[j].assessment
           IN  /\ C9_distance(now) >= C9_distance(before)
                      => now.confidence >= before.confidence
               /\ C9_distance(before) >= C9_distance(now)
                      => before.confidence >= now.confidence

\* C9 witness: two assessments, the later one below 50 and farther from 50
\* than the earlier one, with strictly larger confidence.
C9_Witness ==
    /\ assessed # <<>>
    /\ previous # <<>>
    /\ assessed[1].risk_score < 50
    /\ C9_distance(assessed[1]) > C9_distance(previous[1].assessment)
    /\ assessed[1].confidence > previous[1].assessment.confidence

C10_only_differs(p, a, field) ==
    /\ p # a
    /\ \A f \in DOMAIN p : f # field => p[f] = a[f]

\* C10: of two valid records that differ in exactly one field, the one with
\* the larger applicant_income never scores lower, and the one with the
\* larger existing_debt or the larger loan_amount never scores higher.
C10_Monotone ==
    \A i \in DOMAIN assessed, j \in DOMAIN previous :
        LET a == application
            p == previous[j].application
            s == assessed[i].risk_score
            ps == previous[j].assessment.risk_score
        IN  /\ (C10_only_differs(p, a, "applicant_income")
                   /\ a.applicant_income > p.applicant_income) => s >= ps
            /\ (C10_only_differs(p, a, "applicant_income")
                   /\ a.applicant_income < p.applicant_income) => s <= ps
            /\ (C10_only_differs(p, a, "existing_debt")
                   /\ a.existing_debt > p.existing_debt) => s <= ps
            /\ (C10_only_differs(p, a, "existing_debt")
                   /\ a.existing_debt < p.existing_debt) => s >= ps
            /\ (C10_only_differs(p, a, "loan_amount")
                   /\ a.loan_amount > p.loan_amount) => s <= ps
            /\ (C10_only_differs(p, a, "loan_amount")
                   /\ a.loan_amount < p.loan_amount) => s >= ps

\* C10 witness: income alone was raised and the score rose by more than the
\* income band can give, the two ratios having moved as well.
C10_Witness ==
    /\ assessed # <<>>
    /\ previous # <<>>
    /\ C10_only_differs(previous[1].application, application, "applicant_income")
    /\ application.applicant_income > previous[1].application.applicant_income
    /\ assessed[1].risk_score > previous[1].assessment.risk_score + 30
    /\ assessed[1].risk_score < 100

\* The constraints of the ApplicantRecord table: the numeric ranges and the
\* three enumerations.
C4_conforms(body) ==
    /\ body.applicant_income > 0
    /\ body.loan_amount > 0
    /\ body.loan_term_months \in 12..480
    /\ body.credit_history_months >= 0
    /\ body.dependents \in 0..10
    /\ body.existing_debt >= 0
    /\ body.employment_status \in {"employed", "self_employed", "unemployed"}
    /\ body.property_area \in {"urban", "suburban", "rural"}
    /\ body.education \in {"graduate", "not_graduate"}

\* C4: every request body that violates an ApplicantRecord constraint
\* (numeric range or enum membership) is answered with a validation error,
\* and calculate_risk_score is never invoked for it.
C4_RejectsNonConforming ==
    /\ \A i \in DOMAIN responses :
           ~C4_conforms(responses[i].application) => responses[i].status = 422
    /\ \A body \in engine_calls : C4_conforms(body)

\* C5: no two assessments carry the same application_id, whatever the
\* timing or interleaving of the calls.
C5_UniqueIds ==
    \A i, j \in DOMAIN responses :
        (i # j /\ responses[i].status = 200 /\ responses[j].status = 200)
            => responses[i].assessment.application_id
                   # responses[j].assessment.application_id

====
